---- MODULE Spec2Model ----
(***************************************************************************)
(* Model of project_scanner.py: main() prompts for a directory, calls      *)
(* scan_project() (header with Git information, recursive walk, filter,    *)
(* concatenation) and writes the result to project_context.txt in the      *)
(* process's working directory.                                            *)
(*                                                                         *)
(* Text is a sequence of tokens.  A token is a one-character string, or a  *)
(* literal of the program kept whole ("# File: ").  A file name is a       *)
(* sequence of characters, a path a sequence of names.  File bytes are     *)
(* tokens too; BAD is a byte that is not valid UTF-8.                      *)
(***************************************************************************)
EXTENDS Integers, Sequences, FiniteSets, TLC

VARIABLES
    fs,             \* the file system: absolute path -> [kind, bytes, readable, writable]
    cwd,            \* the process's working directory (absolute path)
    gitTool,        \* the git executable: "ok", "missing", "noexec"
    repo,           \* state of the repository git finds from cwd, if any
    clock,          \* what datetime.now() returns next
    pc,             \* position of the program
    directory,      \* main: the operator's input
    root_path,      \* scan_project: Path(directory).resolve()
    combined_code,  \* scan_project: the aggregate buffer
    file_count,     \* scan_project: files processed
    todo,           \* scan_project: what root_path.rglob("*") has yet to yield
    gitinfo,        \* scan_project: what get_git_info() returned
    context_header, \* scan_project: the header
    walked,         \* history: the entries the loop has dealt with
    blocks,         \* history: what each qualifying file appended, and where
    runs            \* history: one record per finished run of main

vars == <<fs, cwd, gitTool, repo, clock, pc, directory, root_path,
          combined_code, file_count, todo, gitinfo, context_header, walked,
          blocks, runs>>

-----------------------------------------------------------------------------
(* Bounds of the model *)

\* files in the initial tree
MaxFiles == 2
\* runs of main
MaxRuns == 2

-----------------------------------------------------------------------------
(* Characters and names *)

UpperChars == <<"A","B","C","D","E","F","G","H","I","J","K","L","M",
                "N","O","P","Q","R","S","T","U","V","W","X","Y","Z">>
LowerChars == <<"a","b","c","d","e","f","g","h","i","j","k","l","m",
                "n","o","p","q","r","s","t","u","v","w","x","y","z">>

\* the lower-case letter of each upper-case letter
LowerOf ==
    [c \in {UpperChars[i] : i \in 1..26} |->
        LowerChars[CHOOSE i \in 1..26 : UpperChars[i] = c]]

\* str.lower(), one character
LowerChar(c) == IF c \in DOMAIN LowerOf THEN LowerOf[c] ELSE c

\* str.lower()
Lower(s) == [i \in 1..Len(s) |-> LowerChar(s[i])]

\* a byte that does not decode as UTF-8
BAD == "\\xff"
CR == "\r"
LF == "\n"
\* Python's None
None == <<"<None>">>

FILE_TYPES == {
    <<".","p","y">>, <<".","j","s">>, <<".","j","s","x">>, <<".","t","s">>,
    <<".","t","s","x">>, <<".","h","t","m","l">>, <<".","c","s","s">>,
    <<".","m","d">>, <<".","t","x","t">>, <<".","j","s","o","n">>,
    <<".","y","m","l">>, <<".","y","a","m","l">>, <<".","x","m","l">>,
    <<".","c","s","v">>, <<".","j","a","v","a">>, <<".","c">>,
    <<".","c","p","p">>, <<".","h">>, <<".","s","q","l">>, <<".","s","h">>,
    <<".","b","a","t">>, <<".","p","s","1">> }

SKIP_DIRS == {
    <<".","g","i","t">>, <<"_","_","p","y","c","a","c","h","e","_","_">>,
    <<"n","o","d","e","_","m","o","d","u","l","e","s">>, <<"v","e","n","v">>,
    <<"e","n","v">>, <<".","v","e","n","v">>, <<"d","i","s","t">>,
    <<"b","u","i","l","d">>, <<".","i","d","e","a">>,
    <<".","v","s","c","o","d","e">>, <<"t","a","r","g","e","t">>,
    <<"b","i","n">>, <<"o","b","j">>, <<"d","e","b","u","g">>,
    <<"r","e","l","e","a","s","e">> }

SKIP_FILES == {
    <<"p","a","c","k","a","g","e","-","l","o","c","k",".","j","s","o","n">>,
    <<"y","a","r","n",".","l","o","c","k">>,
    <<".","d","s","_","s","t","o","r","e">>,
    <<"t","h","u","m","b","s",".","d","b">> }

\* main's output_file
OutName == <<"p","r","o","j","e","c","t","_","c","o","n","t","e","x","t",
             ".","t","x","t">>

\* names of the modelled trees
NW == <<"w">>
NSrc == <<"s","r","c">>
NBuild == <<"B","u","i","l","d">>
NRelease == <<"R","e","l","e","a","s","e">>
NP == <<"p">>
NDotGit == <<".","g","i","t">>
NaPy == <<"a",".","p","y">>
NBMd == <<"B",".","M","D">>
NnO == <<"n",".","o">>
NLock == <<"P","a","c","k","a","g","e","-","L","o","c","k",".","j","s","o","n">>

\* the order in which os.scandir lists the names of a directory
ScandirOrder == <<NaPy, NBMd, NBuild, NDotGit, NLock, NnO, NP, OutName,
                  NRelease, NSrc, NW>>

-----------------------------------------------------------------------------
(* pathlib *)

\* PurePath.parts of an absolute path: the anchor, then the names
Parts(path) == << <<"/">> >> \o path

\* PurePath.name
Name(path) == IF Len(path) = 0 THEN <<>> ELSE path[Len(path)]

\* PurePath.suffix: from the last dot of the name, unless that dot is the
\* first or the last character
Suffix(name) ==
    LET dots == {i \in 1..Len(name) : name[i] = "."}
        last == CHOOSE i \in dots : \A j \in dots : j <= i
    IN  IF dots = {} THEN <<>>
        ELSE IF last > 1 /\ last < Len(name) THEN SubSeq(name, last, Len(name))
        ELSE <<>>

IsPrefix(p, q) == Len(p) <= Len(q) /\ SubSeq(q, 1, Len(p)) = p

\* current_path.relative_to(root_path)
RelativeTo(path, root) == SubSeq(path, Len(root) + 1, Len(path))

RECURSIVE JoinNames(_)
\* str() of a relative path: the names joined by "/"
JoinNames(path) ==
    IF Len(path) = 0 THEN <<".">>
    ELSE IF Len(path) = 1 THEN path[1]
    ELSE path[1] \o <<"/">> \o JoinNames(Tail(path))

\* str() of an absolute path
AbsStr(path) == IF Len(path) = 0 THEN <<"/">> ELSE <<"/">> \o JoinNames(path)

-----------------------------------------------------------------------------
(* should_skip_path *)

\* the mutation of should_skip_path that compares without lower-casing
should_skip_path_cased(path) ==
    \/ \E i \in 1..Len(Parts(path)) : Parts(path)[i] \in SKIP_DIRS
    \/ Name(path) \in SKIP_FILES

\* the mutation of should_skip_path that looks at the names below the scan
\* root only
should_skip_path_below_root(path) ==
    \/ \E i \in 1..Len(path) :
          /\ i > Len(root_path)
          /\ Lower(path[i]) \in SKIP_DIRS
    \/ Lower(Name(path)) \in SKIP_FILES

\* the mutation of should_skip_path that also leaves out main's output file
should_skip_path_and_output(path) ==
    \/ \E i \in 1..Len(Parts(path)) : Lower(Parts(path)[i]) \in SKIP_DIRS
    \/ Lower(Name(path)) \in SKIP_FILES
    \/ Name(path) = OutName

should_skip_path(path) ==
    \/ \E i \in 1..Len(Parts(path)) : Lower(Parts(path)[i]) \in SKIP_DIRS
    \/ Lower(Name(path)) \in SKIP_FILES

-----------------------------------------------------------------------------
(* The file system, Path.rglob, open *)

IsDir(f, path) == path \in DOMAIN f /\ f[path].kind = "dir"
IsFile(f, path) == path \in DOMAIN f /\ f[path].kind = "file"

\* position of a name in the directory listing order
Rank(name) == CHOOSE i \in 1..Len(ScandirOrder) : ScandirOrder[i] = name

\* os.scandir(d): the entries of directory d, in listing order
Scandir(f, d) ==
    LET kids == {p \in DOMAIN f : Len(p) = Len(d) + 1 /\ IsPrefix(d, p)}
        names == {Rank(Name(p)) : p \in kids}
        ranks == [i \in 1..Cardinality(names) |->
                     CHOOSE r \in names :
                        Cardinality({q \in names : q < r}) = i - 1]
    IN  [i \in 1..Len(ranks) |-> d \o <<ScandirOrder[ranks[i]]>>]

RECURSIVE RGlobFrom(_, _, _)
\* the walk below directory d with the listed entries `kids` of d still to
\* descend into
RGlobFrom(f, d, kids) ==
    IF Len(kids) = 0 THEN <<>>
    ELSE (IF IsDir(f, Head(kids))
          THEN Scandir(f, Head(kids))
                  \o RGlobFrom(f, Head(kids), Scandir(f, Head(kids)))
          ELSE <<>>)
         \o RGlobFrom(f, d, Tail(kids))

\* root.rglob("*"): the entries of root, then the walk of each
\* subdirectory in turn (nothing when root is no directory)
RGlob(f, root) ==
    IF IsDir(f, root)
    THEN Scandir(f, root) \o RGlobFrom(f, root, Scandir(f, root))
    ELSE <<>>

\* bytes.decode("utf-8", errors="ignore"): undecodable bytes are dropped
DecodeIgnore(bytes) == SelectSeq(bytes, LAMBDA b : b # BAD)

RECURSIVE TranslateNewlines(_)
\* universal newlines of a text-mode read: "\r\n" and "\r" become "\n"
TranslateNewlines(text) ==
    IF \A i \in 1..Len(text) : text[i] # CR THEN text
    ELSE IF Head(text) = CR
         THEN IF Len(text) >= 2 /\ text[2] = LF
              THEN <<LF>> \o TranslateNewlines(SubSeq(text, 3, Len(text)))
              ELSE <<LF>> \o TranslateNewlines(Tail(text))
         ELSE <<Head(text)>> \o TranslateNewlines(Tail(text))

\* str.encode("utf-8") of written text: every token of a text is its own
\* encoding (a text holds no BAD)
Encode(text) == text

\* the mutation of OpenRead that decodes strictly
OpenReadStrict(f, path) ==
    IF ~f[path].readable
    THEN [ok |-> FALSE, text |-> <<>>,
          err |-> <<"[Errno 13] Permission denied: '">> \o AbsStr(path) \o <<"'">>]
    ELSE IF \E i \in 1..Len(f[path].bytes) : f[path].bytes[i] = BAD
    THEN [ok |-> FALSE, text |-> <<>>,
          err |-> <<"'utf-8' codec can't decode byte 0xff">>]
    ELSE [ok |-> TRUE, err |-> <<>>,
          text |-> TranslateNewlines(DecodeIgnore(f[path].bytes))]

\* open(path, "r", encoding="utf-8", errors="ignore") and f.read(): the
\* text, or the exception's message
OpenRead(f, path) ==
    IF ~f[path].readable
    THEN [ok |-> FALSE, text |-> <<>>,
          err |-> <<"[Errno 13] Permission denied: '">> \o AbsStr(path) \o <<"'">>]
    ELSE [ok |-> TRUE, err |-> <<>>,
          text |-> TranslateNewlines(DecodeIgnore(f[path].bytes))]

-----------------------------------------------------------------------------
(* get_git_info *)

\* git looks for .git in the working directory and in each directory above
RepoFound(f, dir) ==
    \E i \in 0..Len(dir) : IsDir(f, SubSeq(dir, 1, i) \o <<NDotGit>>)

\* subprocess.check_output(["git", ...]) of query 1 (branch --show-current),
\* 2 (rev-parse HEAD) or 3 (status --porcelain): the bytes of stdout, or
\* the exception raised
CheckOutput(q) ==
    IF gitTool = "missing" THEN [exc |-> "FileNotFoundError", out |-> <<>>]
    ELSE IF gitTool = "noexec" THEN [exc |-> "PermissionError", out |-> <<>>]
    ELSE IF ~RepoFound(fs, cwd) THEN [exc |-> "CalledProcessError", out |-> <<>>]
    ELSE IF q = 1 THEN [exc |-> "none", out |-> repo.branch]
    ELSE IF q = 2
         THEN IF repo.born THEN [exc |-> "none", out |-> repo.commit]
              ELSE [exc |-> "CalledProcessError", out |-> <<>>]
    ELSE [exc |-> "none", out |-> repo.status]

\* bytes.decode("utf-8"): strict
DecodeStrict(r) ==
    IF r.exc # "none" THEN r
    ELSE IF \E i \in 1..Len(r.out) : r.out[i] = BAD
    THEN [exc |-> "UnicodeDecodeError", out |-> <<>>]
    ELSE r

IsSpace(c) == c \in {" ", LF, CR, "\t"}

RECURSIVE LStrip(_)
LStrip(s) == IF Len(s) > 0 /\ IsSpace(Head(s)) THEN LStrip(Tail(s)) ELSE s

RECURSIVE RStrip(_)
RStrip(s) ==
    IF Len(s) > 0 /\ IsSpace(s[Len(s)]) THEN RStrip(SubSeq(s, 1, Len(s) - 1))
    ELSE s

\* str.strip()
Strip(s) == RStrip(LStrip(s))

RECURSIVE SplitLinesFrom(_, _)
\* str.splitlines(), with `line` the characters of the line under way
SplitLinesFrom(s, line) ==
    IF Len(s) = 0 THEN (IF Len(line) = 0 THEN <<>> ELSE <<line>>)
    ELSE IF Head(s) = CR /\ Len(s) >= 2 /\ s[2] = LF
         THEN <<line>> \o SplitLinesFrom(SubSeq(s, 3, Len(s)), <<>>)
    ELSE IF Head(s) \in {LF, CR}
         THEN <<line>> \o SplitLinesFrom(Tail(s), <<>>)
    ELSE SplitLinesFrom(Tail(s), Append(line, Head(s)))

SplitLines(s) == SplitLinesFrom(s, <<>>)

\* str.startswith
StartsWith(s, prefix) == IsPrefix(prefix, s)

\* the lines of `git status --porcelain` the program counts
Unstaged(status) ==
    Len(SelectSeq(SplitLines(status),
                  LAMBDA line : \/ StartsWith(line, <<" ", "M">>)
                                \/ StartsWith(line, <<"?", "?">>)))

\* the value of the except clause
Absent == [raised |-> "none", branch |-> None, commit_id |-> None, unstaged |-> 0]

\* the except clause of get_git_info: the exceptions it names are caught,
\* any other propagates
Except(exc) ==
    IF exc \in {"CalledProcessError", "FileNotFoundError"} THEN Absent
    ELSE [raised |-> exc, branch |-> None, commit_id |-> None, unstaged |-> 0]

get_git_info ==
    LET b == DecodeStrict(CheckOutput(1))
        c == DecodeStrict(CheckOutput(2))
        s == DecodeStrict(CheckOutput(3))
    IN  IF b.exc # "none" THEN Except(b.exc)
        ELSE IF c.exc # "none" THEN Except(c.exc)
        ELSE IF s.exc # "none" THEN Except(s.exc)
        ELSE [raised |-> "none", branch |-> Strip(b.out),
              commit_id |-> Strip(c.out), unstaged |-> Unstaged(s.out)]

-----------------------------------------------------------------------------
(* scan_project: the pieces of text *)

\* truth value of an Optional[str]
Truthy(v) == v # None /\ Len(v) > 0

\* datetime.now().strftime(...)
Timestamp(t) == <<"T", ToString(t)>>

\* the Git lines of the header
GitLines(gi) ==
    IF Truthy(gi.branch) /\ Truthy(gi.commit_id)
    THEN <<"Git Branch: ">> \o gi.branch \o <<LF>>
         \o <<"Git Commit ID: ">> \o gi.commit_id \o <<LF>>
         \o (IF gi.unstaged > 0
             THEN <<"Unstaged Changes: ", ToString(gi.unstaged), " files", LF>>
             ELSE <<>>)
    ELSE <<"Not a Git repository", LF>>

\* context_header
ContextHeader(t, root, gi) ==
    <<"# PROJECT CODE CONTEXT - ">> \o Timestamp(t) \o <<LF, LF>>
    \o <<"Directory: ">> \o AbsStr(root) \o <<LF>>
    \o GitLines(gi)

\* the mutation of FileBlock that writes the content before its header
FileBlockSwapped(rel, code) ==
    <<LF, LF>> \o code \o <<LF, LF>> \o <<"# File: ">> \o JoinNames(rel) \o <<LF>>

\* what a file read successfully appends
FileBlock(rel, code) ==
    <<LF, LF, "# File: ">> \o JoinNames(rel) \o <<LF>> \o code \o <<LF, LF>>

\* what a file whose read raised appends
ErrorMarker(rel, e) ==
    <<LF, LF, "[Error reading ">> \o JoinNames(rel) \o <<": ">> \o e \o <<"]">>

\* the trailing line
Summary(n) == <<LF, LF, "Total files processed: ", ToString(n), LF>>

\* Path(directory).resolve()
Resolve(d) == IF d.abs THEN d.parts ELSE cwd \o d.parts

-----------------------------------------------------------------------------
(* The initial states: a tree, a working directory, a Git environment *)

DirEntry == [kind |-> "dir", bytes |-> <<>>, readable |-> TRUE, writable |-> TRUE]

\* a text file; a file with an undecodable byte and a CRLF line end; a file
\* the process may not read; a file the process may not write
PlainFile == [kind |-> "file", bytes |-> <<"x">>, readable |-> TRUE, writable |-> TRUE]
RawFile == [kind |-> "file", bytes |-> <<"y", BAD, CR, LF>>, readable |-> TRUE,
            writable |-> TRUE]
SecretFile == [kind |-> "file", bytes |-> <<"x">>, readable |-> FALSE, writable |-> TRUE]
LockedFile == [kind |-> "file", bytes |-> <<"x">>, readable |-> TRUE, writable |-> FALSE]

\* the directories every modelled tree has
BaseDirs == { <<NW>>, <<NW, NSrc>>, <<NRelease>>, <<NRelease, NP>> }

\* the files a modelled tree may have
CandFiles == { <<NW, NaPy>>, <<NW, NBMd>>, <<NW, NnO>>, <<NW, NLock>>,
               <<NW, NSrc, NaPy>>, <<NW, NBuild, NaPy>>,
               <<NRelease, NP, NaPy>>, <<NW, OutName>> }

KindsFor(path) ==
    IF Name(path) = OutName THEN {PlainFile, SecretFile, LockedFile}
    ELSE {PlainFile, RawFile, SecretFile}

Ancestors(S) == UNION {{SubSeq(p, 1, i) : i \in 1..(Len(p) - 1)} : p \in S}

\* the tree with the files S (of the kinds k), the directories above them
\* and the .git directories G
MkFs(S, k, G) ==
    [p \in S \cup Ancestors(S) \cup BaseDirs \cup G |->
        IF p \in S THEN k[p] ELSE DirEntry]

Cwds == { <<NW>>, <<NW, NSrc>>, <<NRelease, NP>> }

\* a repository on branch m with one commit and a clean tree
CleanRepo == [branch |-> <<"m", LF>>, born |-> TRUE, commit |-> <<"c", "1", LF>>,
              status |-> <<>>]

\* stdout of `git branch --show-current`: a branch, nothing (detached
\* HEAD), a branch name that is not UTF-8
BranchOutputs == { <<"m", LF>>, <<>>, <<BAD, LF>> }

\* stdout of `git status --porcelain`: a clean tree; one modified, one
\* untracked and one staged file
StatusOutputs == { <<>>,
                   <<" ", "M", " ", "a", LF, "?", "?", " ", "b", LF,
                     "M", " ", " ", "c", LF>> }

Repos == [branch : BranchOutputs, born : BOOLEAN, commit : {<<"c", "1", LF>>},
          status : StatusOutputs]

GitDirs == { {}, { <<NW, NDotGit>> } }

\* trees of up to MaxFiles files that are no repository
InitTrees ==
    /\ \E S \in SUBSET CandFiles :
          /\ Cardinality(S) <= MaxFiles
          /\ \E k \in [S -> {PlainFile, RawFile, SecretFile, LockedFile}] :
                /\ \A p \in S : k[p] \in KindsFor(p)
                /\ fs = MkFs(S, k, {})
    /\ gitTool = "ok"
    /\ repo = CleanRepo

\* one tree, every Git environment
InitGit ==
    /\ \E G \in GitDirs :
          fs = MkFs({<<NW, NaPy>>}, [p \in {<<NW, NaPy>>} |-> PlainFile], G)
    /\ gitTool \in {"ok", "missing", "noexec"}
    /\ repo \in Repos

Init ==
    /\ InitTrees \/ InitGit
    /\ cwd \in Cwds
    /\ clock = 1
    /\ pc = "main"
    /\ directory = [abs |-> FALSE, parts |-> <<>>]
    /\ root_path = <<>>
    /\ combined_code = <<>>
    /\ file_count = 0
    /\ todo = <<>>
    /\ gitinfo = Absent
    /\ context_header = <<>>
    /\ walked = <<>>
    /\ blocks = <<>>
    /\ runs = <<>>

-----------------------------------------------------------------------------
(* main and scan_project *)

\* what the operator may type: nothing, or an absolute path
Inputs == { [abs |-> FALSE, parts |-> <<>>],
            [abs |-> TRUE, parts |-> <<NW>>],
            [abs |-> TRUE, parts |-> <<NRelease, NP>>] }

\* main: input(...) or "."; the operator gives every run the same answer
MainPrompt ==
    /\ pc = "main"
    /\ \E d \in Inputs :
          /\ Len(runs) > 0 => d = directory
          /\ directory' = d
    /\ pc' = "scan"
    /\ UNCHANGED <<fs, cwd, gitTool, repo, clock, root_path, combined_code,
                   file_count, todo, gitinfo, context_header, walked, blocks, runs>>

\* scan_project up to the loop: the root, the Git information, the header
ScanHeader ==
    /\ pc = "scan"
    /\ root_path' = Resolve(directory)
    /\ gitinfo' = get_git_info
    /\ file_count' = 0
    /\ walked' = <<>>
    /\ blocks' = <<>>
    /\ IF get_git_info.raised # "none"
       THEN /\ pc' = "crashed"
            /\ UNCHANGED <<clock, combined_code, context_header, todo>>
       ELSE /\ pc' = "walk"
            /\ clock' = clock + 1
            /\ context_header' = ContextHeader(clock, Resolve(directory), get_git_info)
            /\ combined_code' = context_header' \o <<LF>>
            /\ todo' = RGlob(fs, Resolve(directory))
    /\ UNCHANGED <<fs, cwd, gitTool, repo, directory, runs>>

\* ext in FILE_TYPES, for a regular file
Qualifies(path) ==
    /\ IsFile(fs, path)
    /\ Lower(Suffix(Name(path))) \in FILE_TYPES

\* an entry should_skip_path rejects
WalkSkip ==
    /\ pc = "walk" /\ Len(todo) > 0
    /\ should_skip_path(Head(todo))
    /\ todo' = Tail(todo)
    /\ walked' = Append(walked, Head(todo))
    /\ UNCHANGED <<fs, cwd, gitTool, repo, clock, pc, directory, root_path,
                   combined_code, file_count, gitinfo, context_header, blocks, runs>>

\* an entry that is no regular file, or of another type
WalkPass ==
    /\ pc = "walk" /\ Len(todo) > 0
    /\ ~should_skip_path(Head(todo))
    /\ ~Qualifies(Head(todo))
    /\ todo' = Tail(todo)
    /\ walked' = Append(walked, Head(todo))
    /\ UNCHANGED <<fs, cwd, gitTool, repo, clock, pc, directory, root_path,
                   combined_code, file_count, gitinfo, context_header, blocks, runs>>

\* the mutation of CountAfterError that counts the file all the same
CountAfterErrorBumped(n) == n + 1

\* file_count after the except clause of the read: as it was
CountAfterError(n) == n

\* a qualifying file: its block, or the marker of the error
WalkFile ==
    /\ pc = "walk" /\ Len(todo) > 0
    /\ ~should_skip_path(Head(todo))
    /\ Qualifies(Head(todo))
    /\ LET path == Head(todo)
           rel == RelativeTo(path, root_path)
           r == OpenRead(fs, path)
       IN  IF r.ok
           THEN /\ combined_code' = combined_code \o FileBlock(rel, r.text)
                /\ file_count' = file_count + 1
                /\ blocks' = Append(blocks, [kind |-> "file", path |-> path,
                                             at |-> Len(combined_code) + 1,
                                             text |-> r.text])
           ELSE /\ combined_code' = combined_code \o ErrorMarker(rel, r.err)
                /\ file_count' = CountAfterError(file_count)
                /\ blocks' = Append(blocks, [kind |-> "error", path |-> path,
                                             at |-> Len(combined_code) + 1,
                                             text |-> r.err])
    /\ todo' = Tail(todo)
    /\ walked' = Append(walked, Head(todo))
    /\ UNCHANGED <<fs, cwd, gitTool, repo, clock, pc, directory, root_path,
                   gitinfo, context_header, runs>>

\* the end of the loop: the trailing line, and the return to main
ScanReturn ==
    /\ pc = "walk" /\ Len(todo) = 0
    /\ combined_code' = combined_code \o Summary(file_count)
    /\ pc' = "write"
    /\ UNCHANGED <<fs, cwd, gitTool, repo, clock, directory, root_path,
                   file_count, todo, gitinfo, context_header, walked, blocks,
                   runs>>

\* main's output file, in the working directory
OutputPath == cwd \o <<OutName>>

\* open(output_file, "w") succeeds on a new file and on a writable one
CanWrite(path) == path \notin DOMAIN fs \/ (IsFile(fs, path) /\ fs[path].writable)

ThisRun(wrote) ==
    [directory |-> directory, root |-> root_path, cwd |-> cwd,
     out |-> combined_code, count |-> file_count, blocks |-> blocks,
     header |-> context_header, gitinfo |-> gitinfo, wrote |-> wrote]

\* main: the result written over project_context.txt
MainWrite ==
    /\ pc = "write"
    /\ CanWrite(OutputPath)
    /\ fs' = [p \in DOMAIN fs \cup {OutputPath} |->
                IF p # OutputPath THEN fs[p]
                ELSE [kind |-> "file", bytes |-> Encode(combined_code),
                      readable |-> IF p \in DOMAIN fs THEN fs[p].readable ELSE TRUE,
                      writable |-> TRUE]]
    /\ runs' = Append(runs, ThisRun(TRUE))
    /\ pc' = "done"
    /\ UNCHANGED <<cwd, gitTool, repo, clock, directory, root_path, combined_code,
                   file_count, todo, gitinfo, context_header, walked, blocks>>

\* main: the write failed, and the failure is printed
MainWriteError ==
    /\ pc = "write"
    /\ ~CanWrite(OutputPath)
    /\ runs' = Append(runs, ThisRun(FALSE))
    /\ pc' = "done"
    /\ UNCHANGED <<fs, cwd, gitTool, repo, clock, directory, root_path,
                   combined_code, file_count, todo, gitinfo, context_header,
                   walked, blocks>>

\* the operator runs the program again
RunAgain ==
    /\ pc = "done"
    /\ Len(runs) < MaxRuns
    /\ pc' = "main"
    /\ UNCHANGED <<fs, cwd, gitTool, repo, clock, directory, root_path,
                   combined_code, file_count, todo, gitinfo, context_header,
                   walked, blocks, runs>>

Next ==
    \/ MainPrompt
    \/ ScanHeader
    \/ WalkSkip
    \/ WalkPass
    \/ WalkFile
    \/ ScanReturn
    \/ MainWrite
    \/ MainWriteError
    \/ RunAgain

Spec == Init /\ [][Next]_vars

-----------------------------------------------------------------------------
(* Vocabulary of the properties *)

\* text[at .. at + n - 1]
Slice(text, at, n) == SubSeq(text, at, at + n - 1)

\* the text holds the token
Has(text, token) == \E i \in 1..Len(text) : text[i] = token

\* the scan is past its header and has not returned to be written
Scanning == pc \in {"walk", "write"}

\* the entries of the walk the loop has dealt with
Visited == walked

\* some name of the path is, lower-cased, a name of SKIP_DIRS
HasSkipDir(path) == \E j \in 1..Len(path) : Lower(path[j]) \in SKIP_DIRS

FileBlocks(bs) == SelectSeq(bs, LAMBDA b : b.kind = "file")

\* the text of a text-mode read of the bytes
AsRead(bytes) == TranslateNewlines(SelectSeq(bytes, LAMBDA b : b # BAD))

\* the trailing line "Total files processed: n" ends the text
EndsWithTotal(text, n) ==
    /\ Len(text) >= 3
    /\ Slice(text, Len(text) - 2, 3) = <<"Total files processed: ", ToString(n), LF>>

-----------------------------------------------------------------------------
(* C1 *)

\* C1: every file that scan_project adds to the output, as a "# File:"
\* block or as an error marker, has a lower-cased suffix in FILE_TYPES, no
\* path component whose lower-cased name is in SKIP_DIRS and a lower-cased
\* name that is not in SKIP_FILES; the block or marker names it in the output.
C1_OnlyQualifyingFiles ==
    \A i \in 1..Len(blocks) :
        LET p == blocks[i].path
            n == Len(JoinNames(RelativeTo(p, root_path)))
        IN  /\ Lower(Suffix(Name(p))) \in FILE_TYPES
            /\ ~HasSkipDir(p)
            /\ Lower(Name(p)) \notin SKIP_FILES
            /\ combined_code[blocks[i].at + 2] \in {"# File: ", "[Error reading "}
            /\ Slice(combined_code, blocks[i].at + 3, n)
                  = JoinNames(RelativeTo(p, root_path))

\* a finished walk that added a file, of a tree that also holds a file of an
\* included type below a directory named like a SKIP_DIRS entry, a file
\* named like a SKIP_FILES entry and a file of another type
C1_Witness ==
    /\ pc = "write"
    /\ Len(blocks) > 0
    /\ \E p \in DOMAIN fs :
          /\ IsFile(fs, p) /\ IsPrefix(root_path, p)
          /\ HasSkipDir(RelativeTo(p, root_path))
          /\ Lower(Suffix(Name(p))) \in FILE_TYPES
    /\ \E p \in DOMAIN fs :
          /\ IsFile(fs, p) /\ IsPrefix(root_path, p)
          /\ \/ Lower(Name(p)) \in SKIP_FILES
             \/ Lower(Suffix(Name(p))) \notin FILE_TYPES

-----------------------------------------------------------------------------
(* C2 *)

\* the files of the walk that qualify and can be read, in walk order
ReadableQualifying(entries) ==
    SelectSeq(entries, LAMBDA p : /\ ~HasSkipDir(p)
                                  /\ Lower(Name(p)) \notin SKIP_FILES
                                  /\ IsFile(fs, p)
                                  /\ Lower(Suffix(Name(p))) \in FILE_TYPES
                                  /\ fs[p].readable)

\* the block at blocks[i] is the header line "# File: <relative path>" and
\* then `content`
BlockIs(i, content) ==
    LET rel == JoinNames(RelativeTo(blocks[i].path, root_path))
    IN  Slice(combined_code, blocks[i].at + 2, 2 + Len(rel) + Len(content))
           = <<"# File: ">> \o rel \o <<LF>> \o content

\* the blocks of the files read are in walk order, and the trailing line
\* follows them all and counts them
OrderAndTotal ==
    /\ [i \in 1..Len(FileBlocks(blocks)) |-> FileBlocks(blocks)[i].path]
          = ReadableQualifying(Visited)
    /\ \A i, j \in 1..Len(blocks) : i < j => blocks[i].at < blocks[j].at
    /\ pc = "write" =>
          /\ Visited = RGlob(fs, root_path)
          /\ EndsWithTotal(combined_code, Len(FileBlocks(blocks)))
          /\ \A i \in 1..Len(blocks) :
                blocks[i].at + Len(blocks[i].text) < Len(combined_code) - 2

\* C2 as stated: every file read successfully has, in walk order, one block
\* made of the header line "# File: <relative path>" immediately followed by
\* the file's literal content, and the output ends with the line
\* "Total files processed: <n>", n the number of those blocks.
C2_LiteralContent ==
    Scanning =>
        /\ OrderAndTotal
        /\ \A i \in 1..Len(blocks) :
              blocks[i].kind = "file" => BlockIs(i, fs[blocks[i].path].bytes)

\* C2 as amended: the header line is followed by the file's content as the
\* text-mode read returns it (undecodable bytes dropped, "\r\n" and "\r"
\* turned into "\n"), which is the literal content of a file that is valid
\* UTF-8 with "\n" line ends; order and trailing line as stated.
C2_ContentAsRead ==
    Scanning =>
        /\ OrderAndTotal
        /\ \A i \in 1..Len(blocks) :
              blocks[i].kind = "file" =>
                 /\ BlockIs(i, AsRead(fs[blocks[i].path].bytes))
                 /\ (\A k \in 1..Len(fs[blocks[i].path].bytes) :
                        fs[blocks[i].path].bytes[k] \notin {BAD, CR})
                    => BlockIs(i, fs[blocks[i].path].bytes)

\* two files at the root read one after the other, one of them with bytes
\* the read changes, and the total 2
C2_Witness ==
    /\ pc = "write"
    /\ file_count = 2
    /\ Len(blocks) = 2
    /\ \A i \in 1..2 : blocks[i].kind = "file" /\ Len(blocks[i].path) = Len(root_path) + 1
    /\ \E i \in 1..2 : fs[blocks[i].path].bytes # blocks[i].text
    /\ \E i \in 1..2 : fs[blocks[i].path].bytes = blocks[i].text

-----------------------------------------------------------------------------
(* C3 *)

\* the files of the walk that qualify, in walk order
Qualifying(entries) ==
    SelectSeq(entries, LAMBDA p : /\ ~HasSkipDir(p)
                                  /\ Lower(Name(p)) \notin SKIP_FILES
                                  /\ IsFile(fs, p)
                                  /\ Lower(Suffix(Name(p))) \in FILE_TYPES)

\* C3: a qualifying file whose open or read raises appends an error marker
\* with its relative path and the error text and leaves file_count alone,
\* and the walk goes on: each qualifying file met so far has contributed
\* exactly one block (counted) or one marker (not counted), and the total
\* reported is the number of files read.
C3_ErrorMarkerNotCounted ==
    /\ file_count = Len(FileBlocks(blocks))
    /\ Scanning =>
          /\ [i \in 1..Len(blocks) |-> blocks[i].path] = Qualifying(Visited)
          /\ \A i \in 1..Len(blocks) :
                LET rel == JoinNames(RelativeTo(blocks[i].path, root_path))
                    e == blocks[i].text
                IN  /\ blocks[i].kind = "error" <=> ~fs[blocks[i].path].readable
                    /\ blocks[i].kind = "error" =>
                          /\ Len(e) > 0
                          /\ Slice(combined_code, blocks[i].at,
                                   5 + Len(rel) + Len(e))
                                = <<LF, LF, "[Error reading ">> \o rel
                                     \o <<": ">> \o e \o <<"]">>
    /\ pc = "write" =>
          /\ Len(todo) = 0
          /\ Visited = RGlob(fs, root_path)
          /\ EndsWithTotal(combined_code, Len(FileBlocks(blocks)))

\* a finished walk in which a file that could not be read came before one
\* that could
C3_Witness ==
    /\ pc = "write"
    /\ file_count = 1
    /\ \E i, j \in 1..Len(blocks) :
          i < j /\ blocks[i].kind = "error" /\ blocks[j].kind = "file"

-----------------------------------------------------------------------------
(* C4, C5, C6 *)

\* get_git_info returned from its try block: all three queries succeeded
MetadataPresent(gi) == gi.branch # None

\* scan_project has built its header
HeaderBuilt == pc \in {"walk", "write", "done"}

\* C4: the "Git Branch:" and "Git Commit ID:" lines appear exactly when the
\* metadata is present, "Not a Git repository" only when it is absent, and
\* "Unstaged Changes:" only when it is present with a count above 0.
C4_GitLinesIffMetadata ==
    HeaderBuilt =>
        /\ Has(context_header, "Git Branch: ") <=> MetadataPresent(gitinfo)
        /\ Has(context_header, "Git Commit ID: ") <=> MetadataPresent(gitinfo)
        /\ Has(context_header, "Not a Git repository") => ~MetadataPresent(gitinfo)
        /\ Has(context_header, "Unstaged Changes: ")
              => MetadataPresent(gitinfo) /\ gitinfo.unstaged > 0

\* the tree below the scan root holds no .git directory
NoGitDirInTree ==
    ~\E p \in DOMAIN fs : IsPrefix(root_path, p) /\ Name(p) = NDotGit

\* C5: when the scanned tree has no .git subdirectory the output holds the
\* "Not a Git repository" marker and no "Git Branch:" or "Git Commit ID:"
\* line, whatever the working directory.
C5_NoGitDirNoGitLines ==
    (HeaderBuilt /\ NoGitDirInTree) =>
        /\ Has(context_header, "Not a Git repository")
        /\ ~Has(context_header, "Git Branch: ")
        /\ ~Has(context_header, "Git Commit ID: ")

\* one of the three queries fails: the tool does not run, exits non-zero,
\* or prints what does not decode
SomeQueryFails == \E q \in 1..3 : DecodeStrict(CheckOutput(q)).exc # "none"

\* C6: get_git_info never raises; when a query fails, for any reason, it
\* returns (None, None, 0) and the scan proceeds.
C6_GetGitInfoNeverRaises ==
    /\ pc # "crashed"
    /\ (HeaderBuilt /\ SomeQueryFails) => gitinfo = Absent

-----------------------------------------------------------------------------
(* C7 *)

\* C7 as stated: a qualifying file whose bytes fail to decode contributes an
\* error marker and does not increment the counter.
C7_UndecodableIsError ==
    Scanning =>
        \A i \in 1..Len(blocks) :
            Has(fs[blocks[i].path].bytes, BAD) =>
                /\ blocks[i].kind = "error"
                /\ Len(FileBlocks(SubSeq(blocks, 1, i)))
                      = Len(FileBlocks(SubSeq(blocks, 1, i - 1)))

\* C7 as amended: a qualifying file that can be opened and whose bytes do
\* not all decode is read with the undecodable bytes dropped: it contributes
\* a "# File:" block with the rest of its text, no error marker, and the
\* counter goes up by one for it.
C7_UndecodableBytesDropped ==
    Scanning =>
        /\ LET met == Qualifying(Visited)
           IN  \A k \in 1..Len(met) :
                  Has(fs[met[k]].bytes, BAD) /\ fs[met[k]].readable
                  => \E i \in 1..Len(blocks) : blocks[i].path = met[k]
        /\ \A i \in 1..Len(blocks) :
              Has(fs[blocks[i].path].bytes, BAD) /\ fs[blocks[i].path].readable =>
                 /\ blocks[i].kind = "file"
                 /\ ~Has(blocks[i].text, BAD)
                 /\ BlockIs(i, AsRead(fs[blocks[i].path].bytes))
                 /\ file_count >= Len(FileBlocks(SubSeq(blocks, 1, i)))
                 /\ Len(FileBlocks(SubSeq(blocks, 1, i)))
                       = Len(FileBlocks(SubSeq(blocks, 1, i - 1))) + 1
        /\ file_count = Len(FileBlocks(blocks))

\* a file with an undecodable byte has been read
C7_Witness ==
    /\ Scanning
    /\ \E i \in 1..Len(blocks) :
          /\ Has(fs[blocks[i].path].bytes, BAD)
          /\ blocks[i].kind = "file"
          /\ file_count = Len(FileBlocks(SubSeq(blocks, 1, i)))

-----------------------------------------------------------------------------
(* C8, C9 *)

\* what a block says, without where it stands
Said(bs) == [i \in 1..Len(bs) |->
               [kind |-> bs[i].kind, path |-> bs[i].path, text |-> bs[i].text]]

\* a header without its timestamp line
AfterTimestamp(header) == SubSeq(header, 4, Len(header))

\* C8: two runs on the same root give the same file blocks, error markers,
\* total and header lines but for the timestamp, also when main wrote the
\* first run's result to project_context.txt in between.
C8_RerunSameOutput ==
    \A i, j \in 1..Len(runs) :
        (i < j /\ runs[i].root = runs[j].root) =>
            /\ Said(runs[i].blocks) = Said(runs[j].blocks)
            /\ runs[i].count = runs[j].count
            /\ AfterTimestamp(runs[i].header) = AfterTimestamp(runs[j].header)

\* the file main writes
OutFile == cwd \o <<OutName>>

\* the blocks of the other files
Others(bs) == SelectSeq(bs, LAMBDA b : b.path # OutFile)

\* run j read the output of run j - 1 as one more file: one block for
\* project_context.txt, holding the whole output of run j - 1, beside the
\* blocks a scan without that file gives, and a total one higher
EmbedsPrevious(j) ==
    LET mine == SelectSeq(runs[j].blocks, LAMBDA b : b.path = OutFile)
        rel == JoinNames(RelativeTo(OutFile, runs[j].root))
        prev == runs[j - 1].out
    IN  /\ Len(mine) = 1
        /\ mine[1].kind = "file"
        /\ mine[1].text = prev
        /\ Slice(runs[j].out, mine[1].at + 2, 2 + Len(rel) + Len(prev))
              = <<"# File: ">> \o rel \o <<LF>> \o prev
        /\ Said(Others(runs[j].blocks)) = Said(Others(runs[j - 1].blocks))
        /\ runs[j].count = Len(FileBlocks(Others(runs[j].blocks))) + 1
        /\ EndsWithTotal(runs[j].out, runs[j].count)

\* the working directory is the scan root of run j or lies under it on a
\* path with no skipped component, and run j - 1 wrote its output
UnderRoot(j) ==
    /\ runs[j - 1].wrote
    /\ IsPrefix(runs[j].root, cwd)
    /\ ~HasSkipDir(RelativeTo(cwd, runs[j].root))

\* the process may read the output file
CanReadBack == IsFile(fs, OutFile) /\ fs[OutFile].readable

\* C9 as stated: with the working directory at or under the scan root on a
\* path with no skipped component, every run after a successful one reads
\* the previous project_context.txt as one more file and embeds the whole
\* previous output.
C9_EveryRunEmbedsPrevious ==
    \A j \in 2..Len(runs) : UnderRoot(j) => EmbedsPrevious(j)

\* C9 as amended: the same, provided also that no component of the working
\* directory's absolute path is, lower-cased, in SKIP_DIRS and that the
\* output file can be read back.
C9_EmbedsPreviousUnlessSkippedOrUnreadable ==
    \A j \in 2..Len(runs) :
        (UnderRoot(j) /\ ~HasSkipDir(cwd) /\ CanReadBack)
            => EmbedsPrevious(j)

\* a second run, from a working directory below the scan root, of a tree
\* with another file in it
C9_Witness ==
    /\ Len(runs) = 2
    /\ UnderRoot(2) /\ ~HasSkipDir(cwd) /\ CanReadBack
    /\ cwd # runs[2].root
    /\ Len(runs[2].blocks) = 2
    /\ runs[2].count = runs[1].count + 1

-----------------------------------------------------------------------------
(* C10 *)

\* C10: when the resolved root has a component whose lower-cased name is in
\* SKIP_DIRS every entry of the walk is skipped: no file block, no error
\* marker, and "Total files processed: 0", whatever the tree holds.
C10_SkippedRootYieldsNothing ==
    (HeaderBuilt /\ HasSkipDir(root_path)) =>
        /\ blocks = <<>>
        /\ file_count = 0
        /\ ~Has(combined_code, "# File: ")
        /\ ~Has(combined_code, "[Error reading ")
        /\ pc # "walk" =>
              combined_code = context_header
                 \o <<LF, LF, LF, "Total files processed: ", "0", LF>>

\* a finished walk from a root below a directory named Release, of a tree
\* that holds a readable file of an included type
C10_Witness ==
    /\ pc = "write"
    /\ HasSkipDir(root_path)
    /\ \E p \in DOMAIN fs :
          /\ IsPrefix(root_path, p) /\ IsFile(fs, p) /\ fs[p].readable
          /\ Lower(Suffix(Name(p))) \in FILE_TYPES
          /\ ~HasSkipDir(RelativeTo(p, root_path))
          /\ Lower(Name(p)) \notin SKIP_FILES

====
